---- MODULE Spec2Model ----
(***************************************************************************)
(* Model of the weather chat backend.                                      *)
(*                                                                         *)
(* WeatherAIService (backend/core/utils/bot.py): the function registry,    *)
(* and generate_response with its sanitizing pass over the message list,   *)
(* the completion call, the dispatch of the requested tool calls, the      *)
(* recursive continuation and the merge of the rounds' tool calls and tool *)
(* results.                                                                *)
(*                                                                         *)
(* FingerprintAuthentication.authenticate (backend/core/authentication.py) *)
(* with Client.update_activity (backend/core/models.py).                   *)
(*                                                                         *)
(* MessageViewSet.create and the other viewsets                            *)
(* (backend/core/api/views.py), and the queryset filter they share         *)
(* (backend/core/api/mixins.py).                                           *)
(***************************************************************************)
EXTENDS Integers, Sequences, FiniteSets, TLC

VARIABLES
    lists,      \* heap of Python list objects: lists[1] is the caller's `messages`
    stack,      \* call stack of generate_response frames, the innermost last
    ncalls,     \* number of client.chat.completions.create calls made so far
    sent,       \* the message lists submitted to the completion backend, in order
    responses,  \* the completion responses received: content and tool_calls
    produced,   \* every tool result in the order the handlers produced them
    outcome,    \* what the top-level invocation gave back to its caller
    functions,        \* self.functions: registered name -> handler
    function_schemas, \* self.function_schemas: the schema entries, in order
    registered,       \* the latest register_function call and how it ended
    clients,          \* rows of Client
    cities,           \* rows of City
    conversations,    \* rows of Conversation
    message_rows,     \* rows of Message, in order of creation
    preferences,      \* rows of UserPreference
    requests,         \* the HTTP requests in progress: where each one is
    suspended,        \* the invocations of generate_response in other threads
    handler_call,     \* a call of a registered handler: where it is
    cache,            \* django.core.cache: key -> entry
    clock,            \* the time, in seconds
    weather_calls     \* the calls of get_weather and get_weather_alerts made

orchestratorVars == <<lists, stack, ncalls, sent, responses, produced, outcome>>
registryVars == <<functions, function_schemas, registered>>
databaseVars == <<clients, cities, conversations, message_rows, preferences>>
apiVars == <<databaseVars, requests>>
threadVars == <<suspended>>
serviceVars == <<handler_call, cache, clock, weather_calls>>

vars == <<orchestratorVars, registryVars, apiVars, threadVars, serviceVars>>

----------------------------------------------------------------------------
(* Bounds of the model *)

\* most completion calls one top-level invocation is followed through
MaxRounds == 3
\* most tool calls the completion backend requests during one invocation
MaxToolCalls == 3
\* longest message list given to the sanitizing pass on its own
MaxLen == 4
\* most register_function calls made after the service is constructed
MaxRegistrations == 3
\* the requests that go through authentication
MaxRequests == 2
\* most rows created through the viewsets of City, Conversation and
\* UserPreference
MaxRows == 2
\* most messages a conversation holds when a request arrives
MaxStored == 21
\* most calls of get_weather and get_weather_alerts followed
MaxCalls == 2
\* how many times the clock advances, by half a ttl each time
MaxTicks == 3
\* most tool calls of the round whose handlers are followed request by
\* request
MaxHandlerCalls == 2

----------------------------------------------------------------------------
(* Numbers of the source *)

\* views.py line 107: the messages read as history
HistoryLimit == 20
\* service.py lines 4 and 31: the default ttl, in seconds
DefaultTtl == 600

----------------------------------------------------------------------------
(* Values *)

\* Python's None (message.content of a response that only requests tools)
None == "None"

\* a message without a tool_call_id key
NoId == <<>>

\* tool_call_id of a tool call announced in an earlier request
OldId == <<0, 1>>

\* a tool_call_id that no assistant message of the list declares
OtherId == <<0, 2>>

\* the id the backend gives to the i-th tool call of its n-th response
CallId(n, i) == <<n, i>>

\* raw JSON texts of tool_call.function.arguments
ArgsLocation == "{\"location\": \"Paris\"}"
ArgsCity == "{\"city\": \"Paris\"}"
ArgsMalformed == "{\"location\": "
ArgsCoordinates == "{\"latitude\": 48.85, \"longitude\": 2.35}"

ArgTexts == {ArgsLocation, ArgsCity, ArgsMalformed}

JSONDecodeError == "JSONDecodeError"
TypeError == "TypeError"
UpstreamError == "UpstreamError"

\* json.loads on the argument text: the keys of the decoded object, or
\* JSONDecodeError raised for a text that is not JSON
JsonLoads(text) ==
    CASE text = ArgsLocation -> [raises |-> None, keys |-> {"location"}]
      [] text = ArgsCity -> [raises |-> None, keys |-> {"city"}]
      [] text = ArgsCoordinates ->
            [raises |-> None, keys |-> {"latitude", "longitude"}]
      [] OTHER -> [raises |-> JSONDecodeError, keys |-> {}]

\* self.functions after _register_all_functions: each registered name with the
\* required and the accepted keyword parameters of its wrapper
Functions ==
    [get_current_weather |->
        [required |-> {"location"}, accepted |-> {"location", "units"}],
     get_weather_forecast |->
        [required |-> {"location"}, accepted |-> {"location", "days", "units"}],
     get_location_coordinates |->
        [required |-> {"location"}, accepted |-> {"location"}],
     get_weather_by_coordinates |->
        [required |-> {"latitude", "longitude"},
         accepted |-> {"latitude", "longitude", "units"}],
     get_air_quality |->
        [required |-> {"location"}, accepted |-> {"location"}]]

\* names a completion response may ask for: a registered one and one that
\* was never registered
ToolNames == {"get_current_weather", "get_stock_price"}

\* Python binds **function_args to the wrapper's parameters, or raises TypeError
Binds(name, kwargs) ==
    /\ Functions[name].required \subseteq kwargs
    /\ kwargs \subseteq Functions[name].accepted

\* the wrapper's return value: the service's data, or the error payload built
\* in its except clause when the weather service raised
WrapperResult(name, svc) ==
    IF svc = "ok"
    THEN [kind |-> "data", name |-> name]
    ELSE [kind |-> "error", name |-> name]

----------------------------------------------------------------------------
(* Messages *)

Msg(role, content, tool_calls, tool_call_id) ==
    [role |-> role, content |-> content,
     tool_calls |-> tool_calls, tool_call_id |-> tool_call_id]

OldCall ==
    [id |-> OldId, type |-> "function",
     function |-> [name |-> "get_current_weather", arguments |-> ArgsLocation]]

\* the kinds of message a caller's list is made of
HistoryMsgs ==
    { Msg("system", "prompt", <<>>, NoId),
      Msg("user", "question", <<>>, NoId),
      Msg("assistant", "answer", <<>>, NoId),
      Msg("assistant", None, <<OldCall>>, NoId),
      Msg("tool", "payload", <<>>, OldId),
      Msg("tool", "payload", <<>>, OtherId),
      Msg("tool", "payload", <<>>, NoId) }

SeqsUpTo(S, n) == UNION { [1..k -> S] : k \in 0..n }

SystemMsg == Msg("system", "prompt", <<>>, NoId)
UserMsg == Msg("user", "question", <<>>, NoId)
AnswerMsg == Msg("assistant", "answer", <<>>, NoId)

\* message lists callers hand to generate_response: a first question, a
\* conversation rebuilt from stored messages (assistant messages without
\* tool_calls, tool messages without tool_call_id), and a list that carries
\* an earlier tool exchange in full
Histories ==
    { <<UserMsg>>,
      <<SystemMsg, UserMsg>>,
      <<SystemMsg, UserMsg, AnswerMsg, Msg("tool", "payload", <<>>, NoId),
        UserMsg>>,
      <<SystemMsg, UserMsg, Msg("assistant", None, <<OldCall>>, NoId),
        Msg("tool", "payload", <<>>, OldId), AnswerMsg, UserMsg>> }

\* msg.get("tool_calls") is truthy
HasToolCalls(msg) == msg.tool_calls # <<>>

----------------------------------------------------------------------------
(* The sanitizing pass: lines 242-257 *)

RECURSIVE SanitizeFrom(_, _, _, _)
SanitizeFrom(messages, i, expecting_tool_result, cleaned_messages) ==
    IF i > Len(messages) THEN cleaned_messages
    ELSE LET msg == messages[i] IN
         IF msg.role = "tool"
         THEN IF ~expecting_tool_result
              THEN SanitizeFrom(messages, i + 1, expecting_tool_result,
                                cleaned_messages)
              ELSE SanitizeFrom(messages, i + 1, FALSE,
                                Append(cleaned_messages, msg))
         ELSE SanitizeFrom(messages, i + 1,
                           expecting_tool_result
                              \/ (msg.role = "assistant" /\ HasToolCalls(msg)),
                           Append(cleaned_messages, msg))

\* a slip: line 257 indented under the test of line 255, so that of the
\* messages that are not tool messages only the announcing ones are kept
RECURSIVE SanitizeKeepingAnnouncements(_, _, _, _)
SanitizeKeepingAnnouncements(messages, i, expecting_tool_result,
                             cleaned_messages) ==
    IF i > Len(messages) THEN cleaned_messages
    ELSE LET msg == messages[i] IN
         IF msg.role = "tool"
         THEN IF ~expecting_tool_result
              THEN SanitizeKeepingAnnouncements(messages, i + 1,
                        expecting_tool_result, cleaned_messages)
              ELSE SanitizeKeepingAnnouncements(messages, i + 1, FALSE,
                        Append(cleaned_messages, msg))
         ELSE IF msg.role = "assistant" /\ HasToolCalls(msg)
              THEN SanitizeKeepingAnnouncements(messages, i + 1, TRUE,
                        Append(cleaned_messages, msg))
              ELSE SanitizeKeepingAnnouncements(messages, i + 1,
                        expecting_tool_result, cleaned_messages)

SanitizedKeepingAnnouncements(messages) ==
    SanitizeKeepingAnnouncements(messages, 1, FALSE, <<>>)

\* a slip: a tool message is kept only when it carries a tool_call_id
RECURSIVE SanitizeWantingId(_, _, _, _)
SanitizeWantingId(messages, i, expecting_tool_result, cleaned_messages) ==
    IF i > Len(messages) THEN cleaned_messages
    ELSE LET msg == messages[i] IN
         IF msg.role = "tool"
         THEN IF ~expecting_tool_result \/ msg.tool_call_id = NoId
              THEN SanitizeWantingId(messages, i + 1, expecting_tool_result,
                                     cleaned_messages)
              ELSE SanitizeWantingId(messages, i + 1, FALSE,
                                     Append(cleaned_messages, msg))
         ELSE SanitizeWantingId(messages, i + 1,
                                expecting_tool_result
                                   \/ (msg.role = "assistant" /\ HasToolCalls(msg)),
                                Append(cleaned_messages, msg))

SanitizedWantingId(messages) == SanitizeWantingId(messages, 1, FALSE, <<>>)

\* a slip: a tool message that is dropped sets the flag
RECURSIVE SanitizeToggling(_, _, _, _)
SanitizeToggling(messages, i, expecting_tool_result, cleaned_messages) ==
    IF i > Len(messages) THEN cleaned_messages
    ELSE LET msg == messages[i] IN
         IF msg.role = "tool"
         THEN IF ~expecting_tool_result
              THEN SanitizeToggling(messages, i + 1, TRUE, cleaned_messages)
              ELSE SanitizeToggling(messages, i + 1, FALSE,
                                    Append(cleaned_messages, msg))
         ELSE SanitizeToggling(messages, i + 1,
                               expecting_tool_result
                                  \/ (msg.role = "assistant" /\ HasToolCalls(msg)),
                               Append(cleaned_messages, msg))

SanitizedToggling(messages) == SanitizeToggling(messages, 1, FALSE, <<>>)

Sanitized(messages) == SanitizeFrom(messages, 1, FALSE, <<>>)

----------------------------------------------------------------------------
(* Frames of generate_response *)

\* the result dictionary of lines 272-278
NewResult(content) ==
    [response |-> content, tool_calls |-> <<>>, tool_results |-> <<>>,
     needs_continuation |-> FALSE]

NoResult == NewResult(None)

Frame(messages) ==
    [pc |-> "sanitize", messages |-> messages, cleaned_messages |-> 0,
     tool_calls |-> <<>>, i |-> 0, result |-> NoResult]

Top == stack[Len(stack)]

SetTop(f) == [stack EXCEPT ![Len(stack)] = f]

Running == outcome.status = "running" /\ stack # <<>>

\* an exception nobody catches unwinds every frame of the recursion
Raise(exc) ==
    /\ stack' = <<>>
    /\ outcome' = [status |-> "raised", exception |-> exc, result |-> NoResult]

RECURSIVE Flatten(_)
Flatten(seqs) ==
    IF seqs = <<>> THEN <<>> ELSE Head(seqs) \o Flatten(Tail(seqs))

\* the tool calls requested by each response, in order of the responses
Requested == [k \in 1..Len(responses) |-> responses[k].tool_calls]

\* how many tool calls the next response may still request
Budget ==
    IF ncalls + 1 < MaxRounds
    THEN MaxToolCalls - Len(Flatten(Requested))
    ELSE 0

----------------------------------------------------------------------------
(* The function registry: __init__, _register_all_functions, register_function *)

\* the names in the order _register_all_functions registers them
RegistrationOrder ==
    <<"get_current_weather", "get_weather_forecast",
      "get_location_coordinates", "get_weather_by_coordinates",
      "get_air_quality">>

\* the wrapper method registered under each name
WrapperOf ==
    [get_current_weather |-> "_get_current_weather_wrapper",
     get_weather_forecast |-> "_get_forecast_wrapper",
     get_location_coordinates |-> "_get_coordinates_wrapper",
     get_weather_by_coordinates |-> "_get_weather_by_coordinates_wrapper",
     get_air_quality |-> "_get_air_quality_wrapper"]

\* the entry register_function appends to function_schemas (lines 227-234)
SchemaEntry(name, description, parameters) ==
    [type |-> "function",
     function |-> [name |-> name, description |-> description,
                   parameters |-> parameters]]

\* the registry when __init__ returns
Constructed ==
    /\ functions = WrapperOf
    /\ function_schemas =
          [j \in 1..Len(RegistrationOrder) |->
              SchemaEntry(RegistrationOrder[j],
                          WrapperOf[RegistrationOrder[j]],
                          Functions[RegistrationOrder[j]].required)]
    /\ registered = [name |-> None, duplicate |-> FALSE, raised |-> None]

\* what later callers of register_function pass
RegisteredNames == {"get_current_weather", "get_air_quality", "get_stock_price"}
RegisteredFuncs == {"_get_current_weather_wrapper", "get_stock_price_handler"}

\* lines 221-235
RegisterFunction ==
    /\ Len(function_schemas) < Len(RegistrationOrder) + MaxRegistrations
    /\ \E name \in RegisteredNames, func \in RegisteredFuncs :
          /\ functions' =
                [n \in DOMAIN functions \cup {name} |->
                    IF n = name THEN func ELSE functions[n]]
          /\ function_schemas' =
                Append(function_schemas,
                       SchemaEntry(name, func, {"location"}))
          /\ registered' = [name |-> name,
                            duplicate |-> name \in DOMAIN functions,
                            raised |-> None]
    /\ UNCHANGED <<threadVars, serviceVars, orchestratorVars, apiVars>>

\* no invocation of generate_response in another thread
SingleThread == suspended = <<>>

\* no handler is being called, nothing is cached, get_weather was not called
ServicesIdle ==
    /\ handler_call = [pc |-> "idle"]
    /\ cache = <<>>
    /\ clock = 0
    /\ weather_calls = <<>>

\* the service constructed, no invocation of generate_response in progress
NotInvoked ==
    /\ lists = <<>>
    /\ stack = <<>>
    /\ ncalls = 0
    /\ sent = <<>>
    /\ responses = <<>>
    /\ produced = <<>>
    /\ outcome = [status |-> "idle", exception |-> None, result |-> NoResult]

\* no row in any table
EmptyDatabase ==
    /\ clients = <<>>
    /\ cities = <<>>
    /\ conversations = <<>>
    /\ message_rows = <<>>
    /\ preferences = <<>>

InitRegistry ==
    /\ Constructed
    /\ SingleThread
    /\ ServicesIdle
    /\ NotInvoked
    /\ EmptyDatabase
    /\ requests = <<>>

NextRegistry == RegisterFunction

SpecRegistry == InitRegistry /\ [][NextRegistry]_vars

----------------------------------------------------------------------------
(* Actions *)

\* an invocation of generate_response on the list h begins
Invoked(h) ==
    /\ lists = <<h>>
    /\ stack = <<Frame(1)>>
    /\ ncalls = 0
    /\ sent = <<>>
    /\ responses = <<>>
    /\ produced = <<>>
    /\ outcome = [status |-> "running", exception |-> None, result |-> NoResult]

Init ==
    /\ \E h \in Histories : Invoked(h)
    /\ Constructed
    /\ SingleThread
    /\ ServicesIdle
    /\ EmptyDatabase
    /\ requests = <<>>

\* lines 242-257: build cleaned_messages, a new list, from messages
Sanitize ==
    /\ Running
    /\ Top.pc = "sanitize"
    /\ lists' = Append(lists, Sanitized(lists[Top.messages]))
    /\ stack' = SetTop([Top EXCEPT !.pc = "complete",
                                   !.cleaned_messages = Len(lists) + 1])
    /\ UNCHANGED <<ncalls, sent, responses, produced, outcome>>
    /\ UNCHANGED <<registryVars, apiVars, threadVars, serviceVars>>

\* the tool calls a response may carry: ids are the backend's, unique
ToolCallsOf(n, names, args) ==
    [i \in 1..Len(names) |->
        [id |-> CallId(n, i), type |-> "function",
         function |-> [name |-> names[i], arguments |-> args[i]]]]

\* message.content of a response with k tool calls: a text, or None next
\* to tool calls, or an empty text
Contents(k) == IF k = 0 THEN {None, "", "text"} ELSE {None, "text"}

\* a slip: the tool branch is entered whatever the response holds
AfterCompletionAlwaysDispatch(tool_calls) == "dispatch"

\* where line 280 sends the frame
AfterCompletion(tool_calls) ==
    IF tool_calls # <<>> THEN "dispatch" ELSE "return"

\* lines 259-280: the completion call answers
Complete ==
    /\ Running
    /\ Top.pc = "complete"
    /\ ncalls < MaxRounds
    /\ \E k \in 0..Budget :
       \E content \in Contents(k) :
       \E names \in [1..k -> ToolNames] :
       \E args \in [1..k -> ArgTexts] :
          LET tool_calls == ToolCallsOf(ncalls + 1, names, args) IN
          /\ stack' = SetTop([Top EXCEPT !.pc = AfterCompletion(tool_calls),
                                         !.tool_calls = tool_calls,
                                         !.i = 1,
                                         !.result = NewResult(content)])
          /\ responses' = Append(responses, [content |-> content,
                                              tool_calls |-> tool_calls])
    /\ ncalls' = ncalls + 1
    /\ sent' = Append(sent, lists[Top.cleaned_messages])
    /\ UNCHANGED <<lists, produced, outcome>>
    /\ UNCHANGED <<registryVars, apiVars, threadVars, serviceVars>>

\* line 269: the completion call raises (network, authentication, rate limit)
CompleteFails ==
    /\ Running
    /\ Top.pc = "complete"
    /\ ncalls < MaxRounds
    /\ ncalls' = ncalls + 1
    /\ sent' = Append(sent, lists[Top.cleaned_messages])
    /\ Raise(UpstreamError)
    /\ UNCHANGED <<lists, responses, produced>>
    /\ UNCHANGED <<registryVars, apiVars, threadVars, serviceVars>>

\* the entry of result["tool_calls"] built in lines 286-295
CallEntry(tool_call) ==
    [id |-> tool_call.id, type |-> tool_call.type,
     function |-> [name |-> tool_call.function.name,
                   arguments |-> tool_call.function.arguments]]

\* the entry of result["tool_results"] built in lines 300-307
ResultEntry(tool_call, function_args, function_result) ==
    [tool_call_id |-> tool_call.id,
     function_name |-> tool_call.function.name,
     function_args |-> function_args,
     result |-> function_result]

\* a slip: the result is put in front of the earlier results
AddResultInFront(tool_results, entry) == <<entry>> \o tool_results

\* line 300: a result joins result["tool_results"]
AddResult(tool_results, entry) == Append(tool_results, entry)

\* lines 282-307: one iteration of the loop over message.tool_calls
DispatchToolCall ==
    /\ Running
    /\ Top.pc = "dispatch"
    /\ Top.i <= Len(Top.tool_calls)
    /\ LET tool_call == Top.tool_calls[Top.i]
           function_name == tool_call.function.name
           loaded == JsonLoads(tool_call.function.arguments)
           function_args == loaded.keys
           calls == Append(Top.result.tool_calls, CallEntry(tool_call))
       IN
       IF loaded.raises = JSONDecodeError
       THEN /\ Raise(JSONDecodeError)
            /\ UNCHANGED produced
       ELSE IF function_name \notin DOMAIN Functions
       THEN /\ stack' = SetTop([Top EXCEPT !.i = @ + 1,
                                           !.result.tool_calls = calls])
            /\ UNCHANGED <<produced, outcome>>
       ELSE IF ~Binds(function_name, function_args)
       THEN /\ Raise(TypeError)
            /\ UNCHANGED produced
       ELSE \E svc \in {"ok", "raises"} :
            LET entry == ResultEntry(tool_call, function_args,
                                     WrapperResult(function_name, svc))
            IN
            /\ stack' = SetTop([Top EXCEPT
                            !.i = @ + 1,
                            !.result.tool_calls = calls,
                            !.result.tool_results = AddResult(@, entry)])
            /\ produced' = Append(produced, entry)
            /\ UNCHANGED outcome
    /\ UNCHANGED <<lists, ncalls, sent, responses>>
    /\ UNCHANGED <<registryVars, apiVars, threadVars, serviceVars>>

\* lines 310-314
AssistantMessage(result) ==
    Msg("assistant", result.response, result.tool_calls, NoId)

\* json.dumps of a wrapper's return value
JsonDumps(function_result) ==
    IF function_result.kind = "data"
    THEN "{\"location\": \"Paris\", \"temperature\": 18}"
    ELSE "{\"error\": \"Location not found\", \"location\": \"Paris\"}"

\* lines 318-322
ToolMessage(tool_result) ==
    Msg("tool", JsonDumps(tool_result.result), <<>>, tool_result.tool_call_id)

ToolMessages(tool_results) ==
    [j \in 1..Len(tool_results) |-> ToolMessage(tool_results[j])]

\* a slip: cleaned_messages is the caller's list itself, not a new list
AppendedListIsInput(f) == f.messages

\* lines 310, 318: the list object the appends go to is cleaned_messages
AppendedList(f) == f.cleaned_messages

\* lines 309-325: append the assistant message and the tool messages to
\* cleaned_messages and call generate_response on that list
Recurse ==
    /\ Running
    /\ Top.pc = "dispatch"
    /\ Top.i > Len(Top.tool_calls)
    /\ lists' = [lists EXCEPT ![AppendedList(Top)] =
                    (@ \o <<AssistantMessage(Top.result)>>)
                       \o ToolMessages(Top.result.tool_results)]
    /\ stack' = Append(SetTop([Top EXCEPT !.pc = "recursing"]),
                       Frame(Top.cleaned_messages))
    /\ UNCHANGED <<ncalls, sent, responses, produced, outcome>>
    /\ UNCHANGED <<registryVars, apiVars, threadVars, serviceVars>>

\* a slip: the callee's lists in front of the caller's
MergeCalleeFirst(own, final) == final \o own

\* lines 328-329: the caller's lists in front of the callee's
Merge(own, final) == own \o final

\* a slip: the caller returns its own dictionary with the merged lists, and
\* so its own round's text
MergedIntoOwnResult(result, final_result) ==
    [result EXCEPT
        !.tool_calls = result.tool_calls \o final_result.tool_calls,
        !.tool_results = result.tool_results \o final_result.tool_results]

\* lines 325-331: final_result is the dictionary the recursive call returned,
\* with the caller's tool calls and tool results put in front
MergedResult(result, final_result) ==
    [final_result EXCEPT
        !.tool_calls = Merge(result.tool_calls, @),
        !.tool_results = Merge(result.tool_results, @)]

\* lines 327-333: a frame returns; its caller merges and returns in turn
Return ==
    /\ Running
    /\ Top.pc = "return"
    /\ IF Len(stack) = 1
       THEN /\ outcome' = [status |-> "returned", exception |-> None,
                           result |-> Top.result]
            /\ stack' = <<>>
       ELSE LET caller == stack[Len(stack) - 1]
                final_result == MergedResult(caller.result, Top.result)
            IN
            /\ stack' = [SubSeq(stack, 1, Len(stack) - 1)
                            EXCEPT ![Len(stack) - 1] =
                                [caller EXCEPT !.pc = "return",
                                               !.result = final_result]]
            /\ UNCHANGED outcome
    /\ UNCHANGED <<lists, ncalls, sent, responses, produced>>
    /\ UNCHANGED <<registryVars, apiVars, threadVars, serviceVars>>

Next ==
    \/ Sanitize
    \/ Complete
    \/ CompleteFails
    \/ DispatchToolCall
    \/ Recurse
    \/ Return

Spec == Init /\ [][Next]_vars

----------------------------------------------------------------------------
(* The sanitizing pass on its own, over every message list up to MaxLen *)

InitSanitize ==
    /\ \E h \in SeqsUpTo(HistoryMsgs, MaxLen) : Invoked(h)
    /\ Constructed
    /\ SingleThread
    /\ ServicesIdle
    /\ EmptyDatabase
    /\ requests = <<>>

NextSanitize == Sanitize

SpecSanitize == InitSanitize /\ [][NextSanitize]_vars

----------------------------------------------------------------------------
(* FingerprintAuthentication.authenticate (backend/core/authentication.py) *)
(* and Client.update_activity (backend/core/models.py)                     *)

\* the requests that are authenticated, each in a thread of its own
AuthRequests == 1..MaxRequests

\* what request.headers.get("X-Fingerprint") gives
Headers == {None, "", "fpA"}
\* what request.query_params.get("fingerprint") gives
QueryParams == {None, "fpB"}
\* what get_authorization_header(request).decode() gives ("" when absent)
Authorizations == {"", " ", " fpA "}

\* Python truth value of an optional string
Truthy(v) == v \notin {None, ""}

\* Python's  a or b
Or(a, b) == IF Truthy(a) THEN a ELSE b

\* str.strip()
Strip(s) ==
    CASE s = " " -> ""
      [] s = " fpA " -> "fpA"
      [] OTHER -> s

\* lines 17-28: the fingerprint authenticate goes on with, None when it
\* raises AuthenticationFailed
Fingerprint(header, query, authorization) ==
    LET fingerprint == Or(header, query) IN
    IF Truthy(fingerprint) THEN fingerprint
    ELSE IF Truthy(Strip(authorization)) THEN Strip(authorization)
    ELSE None

\* a request that did not reach authenticate yet
NewRequest ==
    [pc |-> "authenticate", header |-> None, query |-> None,
     authorization |-> "", fingerprint |-> None, instance |-> None,
     user |-> None, raised |-> None]

\* a row of Client; created_by and updated_by record the requests that
\* inserted and saved it
ClientRow(fingerprint, r) ==
    [fingerprint |-> fingerprint, total_requests |-> 0,
     created_by |-> r, updated_by |-> <<>>]

\* the rows whose fingerprint is the given one: what the lookup of
\* get_or_create finds
ClientsWith(fingerprint) ==
    { id \in 1..Len(clients) : clients[id].fingerprint = fingerprint }

\* a slip: the insert is not checked against the rows already there
ExistingClientUnchecked(fingerprint) == {}

\* models.py line 33, unique=True: the rows the insert of get_or_create
\* collides with
ExistingClient(fingerprint) == ClientsWith(fingerprint)

\* the in-memory Client an ORM query returns for row id
Loaded(id) == [id |-> id, total_requests |-> clients[id].total_requests]

\* lines 17-30: the fingerprint is read off the request and get_or_create
\* looks the Client up
Authenticate(r) ==
    /\ requests[r].pc = "authenticate"
    /\ \E header \in Headers, query \in QueryParams,
          authorization \in Authorizations :
          LET fingerprint == Fingerprint(header, query, authorization)
              read == [requests[r] EXCEPT !.header = header,
                                          !.query = query,
                                          !.authorization = authorization,
                                          !.fingerprint = fingerprint]
              found == ClientsWith(fingerprint)
          IN
          requests' =
              [requests EXCEPT ![r] =
                  IF fingerprint = None
                  THEN [read EXCEPT !.pc = "done",
                                    !.raised = "AuthenticationFailed"]
                  ELSE IF found # {}
                  THEN [read EXCEPT !.pc = "update_activity",
                                    !.instance =
                                        Loaded(CHOOSE id \in found : TRUE)]
                  ELSE [read EXCEPT !.pc = "create"]]
    /\ UNCHANGED <<threadVars, serviceVars, orchestratorVars, registryVars, databaseVars>>

\* line 30: get_or_create found no row and inserts one; when the unique
\* index refuses the insert it returns the row that is there
CreateClient(r) ==
    /\ requests[r].pc = "create"
    /\ LET fingerprint == requests[r].fingerprint
           existing == ExistingClient(fingerprint)
       IN
       IF existing # {}
       THEN /\ requests' =
                 [requests EXCEPT
                     ![r].pc = "update_activity",
                     ![r].instance = Loaded(CHOOSE id \in existing : TRUE)]
            /\ UNCHANGED clients
       ELSE /\ clients' = Append(clients, ClientRow(fingerprint, r))
            /\ requests' =
                 [requests EXCEPT
                     ![r].pc = "update_activity",
                     ![r].instance =
                         [id |-> Len(clients) + 1, total_requests |-> 0]]
    /\ UNCHANGED <<threadVars, serviceVars, orchestratorVars, registryVars, cities, conversations,
                   message_rows, preferences>>

\* line 32 and models.py lines 63-74: the loaded instance's counter is
\* incremented and written back
UpdateActivity(r) ==
    /\ requests[r].pc = "update_activity"
    /\ LET self == requests[r].instance IN
       /\ clients' =
            [clients EXCEPT
                ![self.id].total_requests = self.total_requests + 1,
                ![self.id].updated_by = Append(@, r)]
       /\ requests' =
            [requests EXCEPT
                ![r].pc = "done",
                ![r].instance.total_requests = self.total_requests + 1,
                ![r].user = self.id]
    /\ UNCHANGED <<threadVars, serviceVars, orchestratorVars, registryVars, cities, conversations,
                   message_rows, preferences>>

InitAuth ==
    /\ Constructed
    /\ SingleThread
    /\ ServicesIdle
    /\ NotInvoked
    /\ EmptyDatabase
    /\ requests = [r \in AuthRequests |-> NewRequest]

NextAuth ==
    \E r \in AuthRequests :
        \/ Authenticate(r)
        \/ CreateClient(r)
        \/ UpdateActivity(r)

SpecAuth == InitAuth /\ [][NextAuth]_vars

----------------------------------------------------------------------------
(* MessageViewSet.create (backend/core/api/views.py, lines 66-214) *)

\* the POST /messages requests, each in a thread of its own
MessageRequests == {1, 2}

\* request.data.get('city')
CityNames == {None, "Paris"}

\* the text of the fallback assistant message (line 203)
FallbackContent == "I apologize, but I encountered an error"

\* the tool_results lists of the results generate_response returns
ToolResultLists ==
    LET data == ResultEntry(OldCall, {"location"},
                            WrapperResult("get_current_weather", "ok"))
        error == ResultEntry(OldCall, {"location"},
                             WrapperResult("get_current_weather", "fail"))
    IN { <<>>, <<data>>, <<data, error>> }

\* the dictionaries generate_response returns: built at bot.py lines
\* 272-278, response and tool_results filled in
AiResults ==
    { [NewResult(response) EXCEPT !.tool_results = tool_results,
                                  !.tool_calls =
                                      [j \in 1..Len(tool_results) |-> OldCall]] :
        response \in {None, "text"}, tool_results \in ToolResultLists }

\* the exceptions generate_response lets out
AiExceptions == {UpstreamError, JSONDecodeError, TypeError}

\* the Client rows after two clients were authenticated once
SeededClients ==
    <<[ClientRow("fpA", 1) EXCEPT !.total_requests = 1, !.updated_by = <<1>>],
      [ClientRow("fpB", 2) EXCEPT !.total_requests = 1, !.updated_by = <<2>>]>>

\* two clients, each with a conversation of its own and no message yet
Seeded ==
    /\ clients = SeededClients
    /\ conversations = <<[client |-> 1, message_count |-> 0],
                         [client |-> 2, message_count |-> 0]>>
    /\ cities = <<>>
    /\ message_rows = <<>>
    /\ preferences = <<>>

\* request.data['conversation']: the key of a conversation, or a key that
\* no conversation has and the serializer refuses
ConversationKeys == 1..(Len(conversations) + 1)

\* a request that did not reach the view yet; a key of 0 is a local not
\* assigned yet, related_city is the empty set for None
NewMessageRequest ==
    [pc |-> "create", conversation |-> 0, message_count |-> 0,
     related_city |-> {}, user_message |-> 0, ai_result |-> NoResult,
     raised |-> None, assistant_message |-> 0, tool_messages |-> <<>>,
     response |-> [status |-> None, user_message |-> 0,
                   assistant_message |-> 0],
     escaped |-> None, user |-> {}, ai_messages |-> <<>>,
     submitted |-> <<>>]

\* the request of an authenticated client: request.user is that Client
RequestOf(user) == [NewMessageRequest EXCEPT !.user = user]

\* a row of Message, with the request that created it
MessageRow(conversation, message_type, content, related_city, r) ==
    [conversation |-> conversation, message_type |-> message_type,
     content |-> content, related_city |-> related_city, request |-> r]

\* the rows a turn without tool calls left in the second conversation
SeededMessages ==
    <<MessageRow(2, "user", "question", {}, 0),
      MessageRow(2, "assistant", "text", {}, 0)>>

\* the City rows with the given client and name
CitiesWith(client, name) ==
    { id \in 1..Len(cities) :
        cities[id].client = client /\ cities[id].name = name }

\* lines 86-94: the cities table after get_or_create, search_count += 1
\* and save
CitiesAfterSearch(client, name) ==
    IF CitiesWith(client, name) # {}
    THEN LET id == CHOOSE c \in CitiesWith(client, name) : TRUE IN
         [cities EXCEPT ![id].search_count = @ + 1]
    ELSE Append(cities, [client |-> client, name |-> name,
                         search_count |-> 1])

\* the City that get_or_create gave back
RelatedCity(client, name) ==
    IF CitiesWith(client, name) # {}
    THEN {CHOOSE c \in CitiesWith(client, name) : TRUE}
    ELSE {Len(cities) + 1}

\* Python's  content or ''
OrEmpty(content) == IF content \in {None, ""} THEN "" ELSE content

\* Message.objects.filter(conversation=conversation).count()
MessageCount(rows, conversation) ==
    Cardinality({ id \in 1..Len(rows) : rows[id].conversation = conversation })

\* the rows of a conversation in the order of their timestamps
MessagesOf(rows, conversation) ==
    SelectSeq(rows, LAMBDA row : row.conversation = conversation)

\* line 107: the slice [:n] of a queryset
FirstRows(history, n) == SubSeq(history, 1, n)

\* lines 105-107: messages_history
MessagesHistory(rows, conversation) ==
    LET history == MessagesOf(rows, conversation) IN
    IF Len(history) <= HistoryLimit THEN history
    ELSE FirstRows(history, HistoryLimit)

\* a slip: the assistant message is rebuilt with tool calls
RebuiltAnnouncing(row) ==
    IF row.message_type = "assistant"
    THEN Msg("assistant", row.content, <<OldCall>>, NoId)
    ELSE Msg(row.message_type, row.content, <<>>, NoId)

\* lines 113-129: the dictionary built for a stored message; role and
\* content are its only keys
Rebuilt(row) == Msg(row.message_type, row.content, <<>>, NoId)

\* lines 110-129: ai_messages
AiMessages(rows, conversation) ==
    LET messages_history == MessagesHistory(rows, conversation) IN
    <<SystemMsg>> \o [j \in 1..Len(messages_history) |->
                        Rebuilt(messages_history[j])]

\* lines 75-129: validation, the related city, the user's message, the
\* message list for generate_response
CreateUserMessage(r) ==
    /\ requests[r].pc = "create"
    /\ \E conversation \in ConversationKeys, city_name \in CityNames :
          IF conversation \notin 1..Len(conversations)
          THEN /\ requests' = [requests EXCEPT
                                  ![r].pc = "done",
                                  ![r].escaped = "ValidationError"]
               /\ UNCHANGED <<cities, message_rows>>
          ELSE LET client == conversations[conversation].client
                   related_city ==
                       IF city_name = None THEN {}
                       ELSE RelatedCity(client, city_name)
               IN
               /\ cities' = IF city_name = None THEN cities
                            ELSE CitiesAfterSearch(client, city_name)
               /\ message_rows' =
                     Append(message_rows,
                            MessageRow(conversation, "user", "question",
                                       related_city, r))
               /\ requests' =
                     [requests EXCEPT
                         ![r].pc = "generate",
                         ![r].conversation = conversation,
                         ![r].message_count =
                             conversations[conversation].message_count,
                         ![r].related_city = related_city,
                         ![r].user_message = Len(message_rows) + 1,
                         ![r].ai_messages =
                             AiMessages(message_rows', conversation)]
    /\ UNCHANGED <<threadVars, serviceVars, orchestratorVars, registryVars, clients, conversations,
                   preferences>>

\* bot.py lines 242-269: the list generate_response submits in its first
\* completion call
FirstSubmission(ai_messages) == Sanitized(ai_messages)

\* lines 132-133: generate_response returns a result
GenerateResponse(r) ==
    /\ requests[r].pc = "generate"
    /\ \E ai_result \in AiResults :
          requests' = [requests EXCEPT
                          ![r].pc = "assistant",
                          ![r].submitted =
                              FirstSubmission(requests[r].ai_messages),
                          ![r].ai_result = ai_result]
    /\ UNCHANGED <<threadVars, serviceVars, orchestratorVars, registryVars, databaseVars>>

\* lines 132-133, 198: generate_response raises
GenerateResponseRaises(r) ==
    /\ requests[r].pc = "generate"
    /\ \E exception \in AiExceptions :
          requests' = [requests EXCEPT
                          ![r].pc = "fallback",
                          ![r].submitted =
                              FirstSubmission(requests[r].ai_messages),
                          ![r].raised = exception]
    /\ UNCHANGED <<threadVars, serviceVars, orchestratorVars, registryVars, databaseVars>>

\* where the view goes on after the assistant message and i tool messages
AfterMessages(ai_result, i) ==
    IF i < Len(ai_result.tool_results) THEN "tool" ELSE "count"

\* lines 136-141: the assistant message is saved
SaveAssistantMessage(r) ==
    /\ requests[r].pc = "assistant"
    /\ LET q == requests[r] IN
       /\ message_rows' =
             Append(message_rows,
                    MessageRow(q.conversation, "assistant",
                               OrEmpty(q.ai_result.response),
                               q.related_city, r))
       /\ requests' =
             [requests EXCEPT
                 ![r].pc = AfterMessages(q.ai_result, 0),
                 ![r].assistant_message = Len(message_rows) + 1]
    /\ UNCHANGED <<threadVars, serviceVars, orchestratorVars, registryVars, clients, cities,
                   conversations, preferences>>

\* a slip: the results are taken from the end of the list
LastToolResultFirst(tool_results, i) == tool_results[Len(tool_results) - i]

\* line 146: the tool result the loop is at after i tool messages
NextToolResult(tool_results, i) == tool_results[i + 1]

\* lines 146-153: one turn of the loop over the tool results
SaveToolMessage(r) ==
    /\ requests[r].pc = "tool"
    /\ LET q == requests[r]
           i == Len(q.tool_messages)
           tool_result == NextToolResult(q.ai_result.tool_results, i)
       IN
       /\ message_rows' =
             Append(message_rows,
                    MessageRow(q.conversation, "tool",
                               JsonDumps(tool_result.result),
                               q.related_city, r))
       /\ requests' =
             [requests EXCEPT
                 ![r].pc = AfterMessages(q.ai_result, i + 1),
                 ![r].tool_messages = Append(@, Len(message_rows) + 1)]
    /\ UNCHANGED <<threadVars, serviceVars, orchestratorVars, registryVars, clients, cities,
                   conversations, preferences>>

\* lines 155-186: when the result asks for a continuation a second
\* generate_response gives the final assistant message; then the messages
\* of the conversation are counted
CountMessages(r) ==
    /\ requests[r].pc = "count"
    /\ LET q == requests[r]
           continued == /\ q.ai_result.tool_results # <<>>
                        /\ q.ai_result.needs_continuation
       IN
       \E final_result \in AiResults :
          /\ message_rows' =
                IF continued
                THEN Append(message_rows,
                            MessageRow(q.conversation, "assistant",
                                       OrEmpty(final_result.response),
                                       q.related_city, r))
                ELSE message_rows
          /\ requests' =
                [requests EXCEPT
                    ![r].pc = "save",
                    ![r].assistant_message =
                        IF continued THEN Len(message_rows) + 1 ELSE @,
                    ![r].message_count =
                        MessageCount(message_rows', q.conversation)]
    /\ UNCHANGED <<threadVars, serviceVars, orchestratorVars, registryVars, clients, cities,
                   conversations, preferences>>

\* lines 187-196: the conversation is saved and the response returned
SaveConversation(r) ==
    /\ requests[r].pc = "save"
    /\ LET q == requests[r] IN
       /\ conversations' =
             [conversations EXCEPT
                 ![q.conversation].message_count = q.message_count]
       /\ requests' =
             [requests EXCEPT
                 ![r].pc = "done",
                 ![r].response =
                     [status |-> "HTTP_200_OK",
                      user_message |-> q.user_message,
                      assistant_message |-> q.assistant_message]]
    /\ UNCHANGED <<threadVars, serviceVars, orchestratorVars, registryVars, clients, cities,
                   message_rows, preferences>>

\* a slip: no message is saved for the error
NoFallbackMessage(q, r) == <<>>

\* lines 200-205: the message saved for the error
FallbackMessage(q, r) ==
    <<MessageRow(q.conversation, "assistant", FallbackContent,
                 q.related_city, r)>>

\* lines 198-214: the exception is caught, the fallback message saved and
\* the response returned
Fallback(r) ==
    /\ requests[r].pc = "fallback"
    /\ LET q == requests[r] IN
       /\ message_rows' = message_rows \o FallbackMessage(q, r)
       /\ requests' =
             [requests EXCEPT
                 ![r].pc = "done",
                 ![r].assistant_message = Len(message_rows'),
                 ![r].response =
                     [status |-> "HTTP_201_CREATED",
                      user_message |-> q.user_message,
                      assistant_message |-> Len(message_rows')]]
    /\ UNCHANGED <<threadVars, serviceVars, orchestratorVars, registryVars, clients, cities,
                   conversations, preferences>>

InitView ==
    /\ Constructed
    /\ SingleThread
    /\ ServicesIdle
    /\ NotInvoked
    /\ Seeded
    /\ requests = [r \in MessageRequests |-> RequestOf({1})]

NextView ==
    \E r \in MessageRequests :
        \/ CreateUserMessage(r)
        \/ GenerateResponse(r)
        \/ GenerateResponseRaises(r)
        \/ SaveAssistantMessage(r)
        \/ SaveToolMessage(r)
        \/ CountMessages(r)
        \/ SaveConversation(r)
        \/ Fallback(r)

SpecView == InitView /\ [][NextView]_vars

----------------------------------------------------------------------------
(* ClientFilteredQuerysetMixin.get_queryset (backend/core/api/mixins.py)   *)
(* and the creations that fill the tables it filters                       *)

ViewSets ==
    {"CityViewSet", "ConversationViewSet", "MessageViewSet",
     "UserPreferenceViewSet"}

\* request.user: the empty set for None, else the key of the Client
Users == {{}} \cup { {id} : id \in 1..Len(clients) }

\* self.queryset: the rows of the viewset's model
Queryset(view) ==
    CASE view = "CityViewSet" -> cities
      [] view = "ConversationViewSet" -> conversations
      [] view = "MessageViewSet" -> message_rows
      [] view = "UserPreferenceViewSet" -> preferences

\* a slip: no model is taken to have a client
HasNoClientId(view) == FALSE

\* line 15: hasattr(self.queryset.model, "client_id")
HasClientId(view) ==
    view \in {"CityViewSet", "ConversationViewSet", "UserPreferenceViewSet"}

\* line 19: hasattr(self.queryset.model, "conversation_id")
HasConversationId(view) == view = "MessageViewSet"

\* lines 7-23: the keys of the rows get_queryset returns
GetQueryset(view, client) ==
    LET qs == Queryset(view) IN
    IF client = {} THEN {}
    ELSE IF HasClientId(view)
    THEN { id \in 1..Len(qs) : qs[id].client \in client }
    ELSE IF HasConversationId(view)
    THEN { id \in 1..Len(qs) :
             conversations[qs[id].conversation].client \in client }
    ELSE 1..Len(qs)

\* the request that lists a viewset's objects
ListRequest == 2

\* ModelViewSet.list: the objects of get_queryset are returned
ListObjects ==
    /\ requests[ListRequest].pc = "list"
    /\ \E view \in ViewSets, user \in Users :
          requests' =
              [requests EXCEPT
                  ![ListRequest] = [pc |-> "listed", view |-> view,
                                    user |-> user,
                                    queryset |-> GetQueryset(view, user)]]
    /\ UNCHANGED <<threadVars, serviceVars, orchestratorVars, registryVars, databaseVars>>

\* the conversations of the two clients when the second one has had a turn
SeededConversations ==
    <<[client |-> 1, message_count |-> 0],
      [client |-> 2, message_count |-> Len(SeededMessages)]>>

\* rows are created through the three viewsets while fewer than MaxRows
\* were
RowsLeft ==
    Len(conversations) + Len(cities) + Len(preferences)
        < Len(SeededConversations) + MaxRows

\* views.py lines 41-52: a conversation of the requesting client
CreateConversation ==
    /\ RowsLeft
    /\ \E user \in Users \ {{}} :
          conversations' =
              Append(conversations,
                     [client |-> CHOOSE id \in user : TRUE,
                      message_count |-> 0])
    /\ UNCHANGED <<threadVars, serviceVars, orchestratorVars, registryVars, clients, cities,
                   message_rows, preferences, requests>>

\* ModelViewSet.create with CitySerializer: client is a field of the
\* request body (serializers.py line 31); a second city of the same client
\* and name is refused (models.py line 128)
CreateCity ==
    /\ RowsLeft
    /\ \E client \in 1..Len(clients) :
          /\ CitiesWith(client, "Paris") = {}
          /\ cities' = Append(cities, [client |-> client, name |-> "Paris",
                                       search_count |-> 0])
    /\ UNCHANGED <<threadVars, serviceVars, orchestratorVars, registryVars, clients, conversations,
                   message_rows, preferences, requests>>

\* ModelViewSet.create with UserPreferenceSerializer: client is a field of
\* the request body (serializers.py line 78), one row per client
\* (models.py line 360)
CreateUserPreference ==
    /\ RowsLeft
    /\ \E client \in 1..Len(clients) :
          /\ \A id \in 1..Len(preferences) : preferences[id].client # client
          /\ preferences' = Append(preferences, [client |-> client])
    /\ UNCHANGED <<threadVars, serviceVars, orchestratorVars, registryVars, clients, cities,
                   conversations, message_rows, requests>>

\* the request that posts a message
MessageRequest == 1

InitQuery ==
    /\ Constructed
    /\ SingleThread
    /\ ServicesIdle
    /\ NotInvoked
    /\ clients = SeededClients
    /\ cities = <<>>
    /\ conversations = SeededConversations
    /\ message_rows = SeededMessages
    /\ preferences = <<>>
    /\ \E user \in { {id} : id \in 1..Len(SeededClients) } :
       requests = [r \in {MessageRequest, ListRequest} |->
                      IF r = MessageRequest THEN RequestOf(user)
                      ELSE [pc |-> "list", view |-> "CityViewSet",
                            user |-> {}, queryset |-> {}]]

NextQuery ==
    \/ CreateConversation
    \/ CreateCity
    \/ CreateUserPreference
    \/ CreateUserMessage(MessageRequest)
    \/ GenerateResponse(MessageRequest)
    \/ GenerateResponseRaises(MessageRequest)
    \/ SaveAssistantMessage(MessageRequest)
    \/ SaveToolMessage(MessageRequest)
    \/ CountMessages(MessageRequest)
    \/ SaveConversation(MessageRequest)
    \/ Fallback(MessageRequest)
    \/ ListObjects

SpecQuery == InitQuery /\ [][NextQuery]_vars

----------------------------------------------------------------------------
(* MessageViewSet.create on a conversation that holds earlier turns *)

\* the j-th message stored by earlier turns of one tool result each: the
\* user's message, the assistant message, the tool message
StoredRow(conversation, j) ==
    CASE j % 3 = 1 ->
            MessageRow(conversation, "user", "earlier question", {}, 0)
      [] j % 3 = 2 ->
            MessageRow(conversation, "assistant", "text", {}, 0)
      [] OTHER ->
            MessageRow(conversation, "tool",
                       JsonDumps(WrapperResult("get_current_weather", "ok")),
                       {}, 0)

\* n messages stored for the first client's conversation
Stored(n) ==
    /\ clients = SeededClients
    /\ conversations = <<[client |-> 1, message_count |-> n],
                         [client |-> 2, message_count |-> 0]>>
    /\ cities = <<>>
    /\ message_rows = [j \in 1..n |-> StoredRow(1, j)]
    /\ preferences = <<>>

InitHistory ==
    /\ Constructed
    /\ SingleThread
    /\ ServicesIdle
    /\ NotInvoked
    /\ \E n \in 0..MaxStored : Stored(n)
    /\ requests = [r \in {MessageRequest} |-> RequestOf({1})]

NextHistory ==
    \/ CreateUserMessage(MessageRequest)
    \/ GenerateResponse(MessageRequest)
    \/ GenerateResponseRaises(MessageRequest)
    \/ SaveAssistantMessage(MessageRequest)
    \/ SaveToolMessage(MessageRequest)
    \/ CountMessages(MessageRequest)
    \/ SaveConversation(MessageRequest)
    \/ Fallback(MessageRequest)

SpecHistory == InitHistory /\ [][NextHistory]_vars

----------------------------------------------------------------------------
(* get_weather and get_weather_alerts (backend/core/utils/service.py) *)

\* the coordinates the callers pass: an int, the float equal to it, another int
Coordinates == {[type |-> "int", n |-> 1],
                [type |-> "float", n |-> 1],
                [type |-> "int", n |-> 2]}

Longitudes == {[type |-> "int", n |-> 2]}

\* a coordinate as an f-string formats it: str(1) is "1", str(1.0) is "1.0"
Format(coordinate) ==
    IF coordinate.type = "int"
    THEN ToString(coordinate.n)
    ELSE ToString(coordinate.n) \o ".0"

\* lines 21 and 48: cache_key
CacheKey(prefix, latitude, longitude) ==
    prefix \o ":" \o Format(latitude) \o ":" \o Format(longitude)

ServiceFunctions == {"get_weather", "get_weather_alerts"}

\* the prefix each function gives its keys
Prefix(function) == IF function = "get_weather" THEN "weather" ELSE "alerts"

\* the name each function calls when the cache has no entry
FetchName(function) ==
    IF function = "get_weather"
    THEN "fetch_from_weather_api"
    ELSE "fetch_alerts_from_api"

\* the names service.py defines or imports: line 1 and the two functions
ModuleNames == {"cache", "get_weather", "get_weather_alerts"}

\* lines 25 and 52: the call of a global name. A name the module neither
\* defines nor imports raises NameError when the call is evaluated.
CallGlobal(name, data) ==
    IF name \in ModuleNames
    THEN [raised |-> None, data |-> data]
    ELSE [raised |-> "NameError", data |-> None]

\* what the upstream APIs would give
UpstreamData == {"upstream data"}

\* cache.get: the value of an entry that has not expired, or None
CacheGet(key) ==
    IF key \in DOMAIN cache /\ cache[key].expires > clock
    THEN cache[key].value
    ELSE None

\* cache.set(key, value, timeout=ttl)
CacheSet(key, value, ttl) ==
    [k \in DOMAIN cache \cup {key} |->
        IF k = key
        THEN [value |-> value, expires |-> clock + ttl]
        ELSE cache[k]]

\* lines 4-28 and 31-55: one call of get_weather or get_weather_alerts with
\* the default ttl
GetWeather(function, latitude, longitude) ==
    /\ Len(weather_calls) < MaxCalls
    /\ LET cache_key == CacheKey(Prefix(function), latitude, longitude)
           weather_data == CacheGet(cache_key)
       IN  IF weather_data # None
           THEN /\ weather_calls' = Append(weather_calls,
                     [function |-> function, latitude |-> latitude,
                      longitude |-> longitude, key |-> cache_key,
                      time |-> clock, found |-> TRUE, fetched |-> FALSE,
                      raised |-> None, returned |-> weather_data])
                /\ UNCHANGED cache
           ELSE \E data \in UpstreamData :
                LET fetched == CallGlobal(FetchName(function), data)
                IN  IF fetched.raised # None
                    THEN /\ weather_calls' = Append(weather_calls,
                              [function |-> function, latitude |-> latitude,
                               longitude |-> longitude, key |-> cache_key,
                               time |-> clock, found |-> FALSE,
                               fetched |-> FALSE, raised |-> fetched.raised,
                               returned |-> None])
                         /\ UNCHANGED cache
                    ELSE /\ cache' = CacheSet(cache_key, fetched.data,
                                              DefaultTtl)
                         /\ weather_calls' = Append(weather_calls,
                              [function |-> function, latitude |-> latitude,
                               longitude |-> longitude, key |-> cache_key,
                               time |-> clock, found |-> FALSE,
                               fetched |-> TRUE, raised |-> None,
                               returned |-> fetched.data])
    /\ UNCHANGED <<handler_call, clock, threadVars, orchestratorVars,
                   registryVars, apiVars>>

\* time passes
Tick ==
    /\ clock < MaxTicks * (DefaultTtl \div 2)
    /\ clock' = clock + DefaultTtl \div 2
    /\ UNCHANGED <<handler_call, cache, weather_calls, threadVars,
                   orchestratorVars, registryVars, apiVars>>

\* the keys the calls can make
CacheKeys ==
    { CacheKey(Prefix(function), latitude, longitude) :
        function \in ServiceFunctions, latitude \in Coordinates,
        longitude \in Longitudes }

\* the entries the cache backend holds when the first call is made: none,
\* or one put there for one of the keys, for half a ttl or a whole one
StoredEntries ==
    {<<>>} \cup
    { [k \in {key} |-> [value |-> "stored data", expires |-> expires]] :
        key \in CacheKeys, expires \in {DefaultTtl \div 2, DefaultTtl} }

InitCache ==
    /\ Constructed
    /\ SingleThread
    /\ NotInvoked
    /\ EmptyDatabase
    /\ requests = <<>>
    /\ handler_call = [pc |-> "idle"]
    /\ cache \in StoredEntries
    /\ clock = 0
    /\ weather_calls = <<>>

NextCache ==
    \/ \E function \in ServiceFunctions, latitude \in Coordinates,
          longitude \in Longitudes :
            GetWeather(function, latitude, longitude)
    \/ Tick

SpecCache == InitCache /\ [][NextCache]_vars

----------------------------------------------------------------------------
(* The registered handlers (backend/core/utils/bot.py, lines 180-219) over *)
(* OpenWeatherService (backend/core/utils/weather_api.py)                  *)

\* an exception: its class and its message
Exc(class, message) == [class |-> class, message |-> message]

NoException == Exc("None", "")

\* the classes `except Exception` catches
ExceptionSubclasses == {"Exception", "KeyError"}

\* what session.get gives: a response with a status and a body, or no
\* response at all (connection refused, timeout)
Replies ==
    { [kind |-> "response", status |-> 200, body |-> "data"],
      [kind |-> "response", status |-> 200, body |-> "empty"],
      [kind |-> "response", status |-> 401, body |-> "message"],
      [kind |-> "response", status |-> 404, body |-> "message"],
      [kind |-> "response", status |-> 429, body |-> "message"],
      [kind |-> "response", status |-> 500, body |-> "message"],
      [kind |-> "no response", status |-> 0, body |-> ""] }

\* weather_api.py lines 29-50: _make_request returns the decoded body or
\* raises Exception with the message of the failure
MakeRequest(reply) ==
    CASE reply.kind = "no response" ->
            [raised |-> Exc("Exception", "Network error"), data |-> ""]
      [] reply.status = 401 ->
            [raised |-> Exc("Exception", "Invalid API key"), data |-> ""]
      [] reply.status = 404 ->
            [raised |-> Exc("Exception", "Location not found"), data |-> ""]
      [] reply.status = 429 ->
            [raised |-> Exc("Exception", "API rate limit exceeded"),
             data |-> ""]
      [] reply.status >= 400 ->
            [raised |-> Exc("Exception", "API request failed"), data |-> ""]
      [] OTHER -> [raised |-> NoException, data |-> reply.body]

\* weather_api.py lines 52-189: a method of OpenWeatherService makes its
\* request and reads the body. get_coordinates raises by itself on an empty
\* list (line 129); the others look keys up in the body.
ServiceMethod(method, reply) ==
    LET made == MakeRequest(reply) IN
    IF made.raised # NoException
    THEN made.raised
    ELSE IF made.data = "data"
    THEN NoException
    ELSE IF method = "get_coordinates"
    THEN Exc("Exception", "Location not found")
    ELSE Exc("KeyError", "name")

\* the methods of OpenWeatherService each wrapper calls, in order
ServiceCalls ==
    [get_current_weather |-> <<"get_current_weather">>,
     get_weather_forecast |-> <<"get_forecast">>,
     get_location_coordinates |-> <<"get_coordinates">>,
     get_weather_by_coordinates |-> <<"get_weather_by_coordinates">>,
     get_air_quality |-> <<"get_coordinates", "get_air_pollution">>]

\* arguments that bind to the wrapper's parameters
WellFormedArgs(name) ==
    IF name = "get_weather_by_coordinates"
    THEN ArgsCoordinates
    ELSE ArgsLocation

\* the tool calls of one response, each for a registered handler
HandlerRounds ==
    UNION { [1..k -> DOMAIN ServiceCalls] : k \in 1..MaxHandlerCalls }

\* a round whose response asked for the handlers `names`
Dispatching(names) ==
    [pc |-> "dispatch",
     tool_calls |-> ToolCallsOf(1, names,
                        [j \in 1..Len(names) |-> WellFormedArgs(names[j])]),
     i |-> 1,
     pending |-> <<>>,
     raised |-> NoException,
     result |-> NewResult(None),
     submitted |-> <<>>]

\* bot.py lines 282-298: the loop reaches a tool call and calls its handler
CallHandler ==
    /\ handler_call.pc = "dispatch"
    /\ handler_call.i <= Len(handler_call.tool_calls)
    /\ LET tool_call == handler_call.tool_calls[handler_call.i]
           function_name == tool_call.function.name
           function_args == JsonLoads(tool_call.function.arguments).keys
       IN  /\ function_name \in DOMAIN functions
           /\ Binds(function_name, function_args)
           /\ handler_call' =
                [handler_call EXCEPT
                    !.pc = "handler",
                    !.pending = ServiceCalls[function_name],
                    !.result.tool_calls = Append(@, CallEntry(tool_call))]
    /\ UNCHANGED <<cache, clock, weather_calls, threadVars, orchestratorVars,
                   registryVars, apiVars>>

\* the handler has returned function_result: lines 300-307
HandlerReturns(function_result) ==
    LET tool_call == handler_call.tool_calls[handler_call.i]
        function_args == JsonLoads(tool_call.function.arguments).keys
        entry == ResultEntry(tool_call, function_args, function_result)
    IN  [handler_call EXCEPT
            !.pc = "dispatch",
            !.i = @ + 1,
            !.pending = <<>>,
            !.result.tool_results = AddResult(@, entry)]

\* bot.py lines 180-219: the wrapper calls the next method of the weather
\* service inside its try block; what the method raises is caught by
\* `except Exception` and becomes the error payload
HandlerRequest(reply) ==
    /\ handler_call.pc = "handler"
    /\ LET function_name ==
               handler_call.tool_calls[handler_call.i].function.name
           e == ServiceMethod(Head(handler_call.pending), reply)
       IN  IF e = NoException
           THEN IF Tail(handler_call.pending) # <<>>
                THEN handler_call' =
                        [handler_call EXCEPT !.pending = Tail(@)]
                ELSE handler_call' =
                        HandlerReturns(WrapperResult(function_name, "ok"))
           ELSE IF e.class \in ExceptionSubclasses
                THEN handler_call' =
                        HandlerReturns(WrapperResult(function_name, "raises"))
                ELSE handler_call' =
                        [handler_call EXCEPT !.pc = "raised", !.raised = e]
    /\ UNCHANGED <<cache, clock, weather_calls, threadVars, orchestratorVars,
                   registryVars, apiVars>>

\* bot.py lines 309-325 and, in the recursive call, lines 242-269: the
\* assistant message and the tool messages are appended and the list goes
\* through the sanitizing pass to the completion backend
Deliver ==
    /\ handler_call.pc = "dispatch"
    /\ handler_call.i > Len(handler_call.tool_calls)
    /\ LET cleaned_messages ==
               (Sanitized(<<SystemMsg, UserMsg>>)
                    \o <<AssistantMessage(handler_call.result)>>)
                    \o ToolMessages(handler_call.result.tool_results)
       IN  handler_call' =
                [handler_call EXCEPT
                    !.pc = "submitted",
                    !.submitted = Sanitized(cleaned_messages)]
    /\ UNCHANGED <<cache, clock, weather_calls, threadVars, orchestratorVars,
                   registryVars, apiVars>>

InitHandlers ==
    /\ Constructed
    /\ SingleThread
    /\ NotInvoked
    /\ EmptyDatabase
    /\ requests = <<>>
    /\ \E names \in HandlerRounds : handler_call = Dispatching(names)
    /\ cache = <<>>
    /\ clock = 0
    /\ weather_calls = <<>>

NextHandlers ==
    \/ CallHandler
    \/ \E reply \in Replies : HandlerRequest(reply)
    \/ Deliver

SpecHandlers == InitHandlers /\ [][NextHandlers]_vars

----------------------------------------------------------------------------
(* Two invocations of generate_response in two threads on the one instance *)
(* of WeatherAIService (backend/core/api/views.py, lines 16-18)            *)

Threads == {1, 2}

\* the message list each request built for its invocation: the i-th list of
\* the heap is the input of thread i
ConcurrentHistories ==
    <<<<SystemMsg, UserMsg>>,
      <<SystemMsg, Msg("user", "another question", <<>>, NoId)>>>>

\* what belongs to one invocation: the frames of its thread with their
\* locals, and what the model records about it
Context(thread, frames) ==
    [thread |-> thread, stack |-> frames, ncalls |-> ncalls, sent |-> sent,
     responses |-> responses, produced |-> produced, outcome |-> outcome]

\* the invocation that has not run yet
NotStarted(thread) ==
    [thread |-> thread, stack |-> <<Frame(thread)>>, ncalls |-> 0,
     sent |-> <<>>, responses |-> <<>>, produced |-> <<>>,
     outcome |-> [status |-> "running", exception |-> None,
                  result |-> NoResult]]

\* the thread that is running
Current == IF suspended[1].thread = 1 THEN 2 ELSE 1

\* a slip: cleaned_messages is kept on the instance, so a thread that
\* resumes finds there the list the other thread made last
FramesSharingList(frames, others) ==
    IF frames = <<>> \/ others = <<>>
       \/ others[Len(others)].cleaned_messages = 0
    THEN frames
    ELSE [frames EXCEPT ![Len(frames)].cleaned_messages =
              IF @ = 0 THEN @ ELSE others[Len(others)].cleaned_messages]

\* bot.py lines 241-243: messages, cleaned_messages and the other names of
\* generate_response are locals, so a thread that resumes finds its own
\* frames as it left them
OwnFrames(frames, others) == frames

\* the interpreter suspends the running thread and resumes the other one
Switch ==
    /\ suspended # <<>>
    /\ LET resumed == suspended[1] IN
       /\ suspended' = <<Context(Current, stack)>>
       /\ stack' = OwnFrames(resumed.stack, stack)
       /\ ncalls' = resumed.ncalls
       /\ sent' = resumed.sent
       /\ responses' = resumed.responses
       /\ produced' = resumed.produced
       /\ outcome' = resumed.outcome
    /\ UNCHANGED <<lists, registryVars, apiVars, serviceVars>>

\* the completion backend followed here: only the first response to an
\* invocation requests a tool, one registered handler with arguments that
\* bind, so each invocation ends with its second response at the latest
FewCalls ==
    \A k \in 1..Len(responses) :
        LET tool_calls == responses[k].tool_calls IN
        /\ Len(tool_calls) <= 1
        /\ k > 1 => tool_calls = <<>>
        /\ \A j \in 1..Len(tool_calls) :
            /\ tool_calls[j].function.name \in DOMAIN Functions
            /\ tool_calls[j].function.arguments = ArgsLocation

InitConcurrent ==
    /\ Constructed
    /\ ServicesIdle
    /\ EmptyDatabase
    /\ requests = <<>>
    /\ lists = ConcurrentHistories
    /\ stack = <<Frame(1)>>
    /\ ncalls = 0
    /\ sent = <<>>
    /\ responses = <<>>
    /\ produced = <<>>
    /\ outcome = [status |-> "running", exception |-> None, result |-> NoResult]
    /\ suspended = <<NotStarted(2)>>

NextConcurrent ==
    \/ Sanitize
    \/ Complete /\ FewCalls'
    \/ CompleteFails /\ FewCalls'
    \/ DispatchToolCall
    \/ Recurse
    \/ Return
    \/ Switch

SpecConcurrent == InitConcurrent /\ [][NextConcurrent]_vars

----------------------------------------------------------------------------
(* Properties *)

\* the frames whose result holds the tool calls and results of their own
\* round only (nothing merged in yet)
OwnRound(f) == f.pc \in {"dispatch", "recursing"}

\* the ids of a sequence of tool calls, and of a sequence of tool results
CallIds(tool_calls) == { tool_calls[j].id : j \in 1..Len(tool_calls) }
ResultIds(tool_results) ==
    { tool_results[j].tool_call_id : j \in 1..Len(tool_results) }

\* the place of the call with this id among the tool calls of a response
PosOf(tool_calls, id) ==
    CHOOSE j \in 1..Len(tool_calls) : tool_calls[j].id = id

\* a tool message at place j answers an assistant message with tool calls:
\* between that message and place j there are only tool messages
Announced(list, j) ==
    \E p \in 1..(j - 1) :
        /\ list[p].role = "assistant"
        /\ HasToolCalls(list[p])
        /\ \A q \in (p + 1)..(j - 1) : list[q].role = "tool"

NoOrphan(list) ==
    \A j \in 1..Len(list) : list[j].role = "tool" => Announced(list, j)

\* C1: every tool message the sanitizing pass retains is preceded, other
\* retained tool messages aside, by a retained assistant message with
\* tool_calls: the list about to be submitted holds no orphaned tool message.
C1_NoOrphanedToolMessage ==
    (stack # <<>> /\ Top.pc = "complete")
        => NoOrphan(lists[Top.cleaned_messages])

\* C2: one top-level invocation makes at most D+1 completion calls, D = 1.
C2_AtMostOneContinuation ==
    LET D == 1 IN ncalls <= D + 1

\* the latest response, the k-th with k <= D+1, requested no tool
TerminalResponse ==
    LET D == 1 IN
    /\ Len(responses) \in 1..(D + 1)
    /\ responses[Len(responses)].tool_calls = <<>>

\* C3: once the k-th completion call (k <= D+1) has answered without tool
\* calls, every further step of the invocation only returns from a frame: no
\* completion call and no tool dispatch follows, and the invocation ends
\* having made exactly k completion calls.
C3_TerminalResponseEndsInvocation ==
    [][TerminalResponse =>
          /\ ncalls' = Len(responses)
          /\ responses' = responses
          /\ produced' = produced
          /\ sent' = sent
          /\ Len(stack') < Len(stack)
          /\ outcome'.status \in {"running", "returned"}]_vars

C3_Witness ==
    /\ outcome.status = "returned"
    /\ ncalls = 2
    /\ Len(responses) = 2
    /\ responses[1].tool_calls # <<>>
    /\ produced # <<>>

\* C4: the list submitted in a follow-up round holds, for each tool result of
\* the preceding round, exactly one tool message with that result's
\* tool_call_id, placed after the assistant message announcing the calls.
C4_EveryResultSubmittedOnce ==
    \A k \in 2..Len(sent) :
        (k - 1 <= Len(stack) /\ stack[k - 1].pc = "recursing") =>
            LET list == sent[k]
                result == stack[k - 1].result
            IN
            \A r \in 1..Len(result.tool_results) :
                LET at == { j \in 1..Len(list) :
                              /\ list[j].role = "tool"
                              /\ list[j].tool_call_id =
                                    result.tool_results[r].tool_call_id }
                IN
                /\ Cardinality(at) = 1
                /\ \A j \in at :
                      \E a \in 1..(j - 1) :
                          /\ list[a].role = "assistant"
                          /\ list[a].tool_calls = result.tool_calls

\* C5: a requested tool whose name is not registered gets a tool result
\* whose value is an error payload naming the tool.
C5_UnknownToolGetsErrorResult ==
    \A d \in 1..Len(stack) :
        OwnRound(stack[d]) =>
            \A j \in 1..(stack[d].i - 1) :
                LET tool_call == stack[d].tool_calls[j] IN
                tool_call.function.name \notin DOMAIN Functions =>
                    \E r \in 1..Len(stack[d].result.tool_results) :
                        LET tool_result == stack[d].result.tool_results[r] IN
                        /\ tool_result.tool_call_id = tool_call.id
                        /\ tool_result.result.kind = "error"
                        /\ tool_result.result.name = tool_call.function.name

\* C6: a handler that raises, as when it is called with missing or
\* unexpected keyword arguments, is never re-raised to the caller.
C6_HandlerFailureContained ==
    outcome.status = "raised" => outcome.exception # TypeError

\* C7: the only failure that leaves generate_response is a failure of the
\* completion call.
C7_OnlyUpstreamErrorPropagates ==
    outcome.status = "raised" => outcome.exception = UpstreamError

\* C8: within a round the tool results follow the order of the tool calls
\* they answer, and so do the tool messages appended to the message list.
C8_ResultsInCallOrder ==
    \A d \in 1..Len(stack) :
        LET f == stack[d]
            tool_results == f.result.tool_results
            list == lists[f.cleaned_messages]
        IN
        OwnRound(f) =>
            /\ ResultIds(tool_results) \subseteq CallIds(f.tool_calls)
            /\ \A a, b \in 1..Len(tool_results) :
                  a < b => PosOf(f.tool_calls, tool_results[a].tool_call_id)
                             < PosOf(f.tool_calls, tool_results[b].tool_call_id)
            /\ f.pc = "recursing" =>
                  \A p, q \in 1..Len(list) :
                      ( /\ p < q
                        /\ list[p].role = "tool"
                        /\ list[q].role = "tool"
                        /\ list[p].tool_call_id \in ResultIds(tool_results)
                        /\ list[q].tool_call_id \in ResultIds(tool_results) )
                      => PosOf(f.tool_calls, list[p].tool_call_id)
                           < PosOf(f.tool_calls, list[q].tool_call_id)

C8_Witness ==
    \E d \in 1..Len(stack) :
        /\ stack[d].pc = "recursing"
        /\ Len(stack[d].result.tool_results) >= 2
        /\ Len(lists[stack[d].cleaned_messages]) >= 4

\* C9: the returned outcome carries the tool calls of all rounds, in round
\* order and then in call order, and likewise the tool results.
C9_OutcomeConcatenatesRounds ==
    outcome.status = "returned" =>
        /\ outcome.result.tool_calls = Flatten(Requested)
        /\ outcome.result.tool_results = produced

C9_Witness ==
    /\ outcome.status = "returned"
    /\ Len(responses) = 3
    /\ responses[1].tool_calls # <<>>
    /\ responses[2].tool_calls # <<>>
    /\ Len(outcome.result.tool_results) >= 2
    /\ Len(outcome.result.tool_calls) > Len(outcome.result.tool_results)

C11_NeedsContinuationIffToolCalls ==
    outcome.status = "returned" =>
        (outcome.result.needs_continuation
            <=> outcome.result.tool_calls # <<>>)

\* C15: no step of generate_response changes the list its caller passed in.
C15_CallerListNeverMutated ==
    [][lists'[1] = lists[1]]_vars

C15_Witness ==
    /\ outcome.status \in {"returned", "raised"}
    /\ Len(responses) >= 2
    /\ Len(lists) >= 3
    /\ Len(lists[2]) > Len(lists[1])
    /\ Len(lists[3]) > Len(lists[1])

IsToolMsg(msg) == msg.role = "tool"
IsOtherMsg(msg) == msg.role # "tool"

\* some places of list, in increasing order, spell out sub
RECURSIVE IsSubsequence(_, _)
IsSubsequence(sub, list) ==
    IF sub = <<>> THEN TRUE
    ELSE IF list = <<>> THEN FALSE
    ELSE IF Head(sub) = Head(list)
         THEN IsSubsequence(Tail(sub), Tail(list))
         ELSE IsSubsequence(sub, Tail(list))

\* C20: the sanitizing pass removes tool messages only: its output is a
\* subsequence of its input and holds the system, user and assistant
\* messages of the input, each once and in their order.
C20_SanitizerRemovesOnlyToolMessages ==
    (stack # <<>> /\ Top.pc = "complete") =>
        LET messages == lists[Top.messages]
            cleaned_messages == lists[Top.cleaned_messages]
        IN
        /\ IsSubsequence(cleaned_messages, messages)
        /\ SelectSeq(cleaned_messages, IsOtherMsg)
              = SelectSeq(messages, IsOtherMsg)

C20_Witness ==
    /\ stack # <<>>
    /\ Top.pc = "complete"
    /\ Len(lists[Top.cleaned_messages]) < Len(lists[Top.messages])
    /\ Len(SelectSeq(lists[Top.cleaned_messages], IsToolMsg)) >= 1
    /\ \E j \in 1..Len(lists[Top.messages]) :
          /\ lists[Top.messages][j].role = "assistant"
          /\ HasToolCalls(lists[Top.messages][j])

\* the schema entries registered under a name
SchemasOf(name) ==
    { j \in 1..Len(function_schemas) :
        function_schemas[j].function.name = name }

\* C14: register_function with a name already registered fails with a
\* duplicate-tool error; no name ever has a second schema entry.
C14_DuplicateRegistrationFails ==
    /\ registered.duplicate => registered.raised = "DuplicateToolError"
    /\ \A name \in DOMAIN functions : Cardinality(SchemasOf(name)) <= 1

\* the requests authenticate is done with
Authenticated == { r \in DOMAIN requests : requests[r].pc = "done" }

\* the value a request supplies: the X-Fingerprint header, else the
\* fingerprint query parameter, else the stripped Authorization header;
\* None when all of them are absent or empty
Supplied(r) ==
    LET q == requests[r] IN
    IF q.header \notin {None, ""} THEN q.header
    ELSE IF q.query \notin {None, ""} THEN q.query
    ELSE IF q.authorization \notin {"", " "}
         THEN IF q.authorization = " fpA " THEN "fpA" ELSE q.authorization
    ELSE None

\* the Client rows request r inserted or saved
TouchedBy(r) ==
    { id \in 1..Len(clients) :
        \/ clients[id].created_by = r
        \/ \E j \in 1..Len(clients[id].updated_by) :
              clients[id].updated_by[j] = r }

\* C17: a request that supplies no fingerprint value gets
\* AuthenticationFailed and no Client is created or updated for it; any
\* other request gets the Client whose fingerprint is the supplied value;
\* no two Clients have the same fingerprint.
C17_AuthenticateByFingerprint ==
    /\ \A r \in Authenticated :
          IF Supplied(r) = None
          THEN /\ requests[r].raised = "AuthenticationFailed"
               /\ requests[r].user = None
               /\ TouchedBy(r) = {}
          ELSE /\ requests[r].raised = None
               /\ requests[r].user \in 1..Len(clients)
               /\ clients[requests[r].user].fingerprint = Supplied(r)
    /\ \A i, j \in 1..Len(clients) :
          clients[i].fingerprint = clients[j].fingerprint => i = j

\* two requests with the same fingerprint were given the same Client, which
\* one of them inserted, while both were in authenticate
C17_Witness ==
    /\ Authenticated = DOMAIN requests
    /\ \E r, s \in Authenticated :
          /\ r # s
          /\ requests[r].raised = None
          /\ requests[s].raised = None
          /\ requests[r].user = requests[s].user
          /\ clients[requests[r].user].created_by = r
          /\ requests[s].instance.total_requests = 1
          /\ requests[r].instance.total_requests = 1

\* the successfully authenticated requests that carried Client id's
\* fingerprint
RequestsOf(id) ==
    { r \in Authenticated :
        /\ requests[r].raised = None
        /\ Supplied(r) = clients[id].fingerprint }

\* C19: when the requests are all done, each Client's total_requests is the
\* number of successfully authenticated requests with its fingerprint.
C19_TotalRequestsCountsEveryRequest ==
    Authenticated = DOMAIN requests =>
        \A id \in 1..Len(clients) :
            clients[id].total_requests = Cardinality(RequestsOf(id))

\* the rows of Message that request r created, in the order of the table
RowsOf(r) ==
    SelectSeq([id \in 1..Len(message_rows) |->
                  [id |-> id, row |-> message_rows[id]]],
              LAMBDA e : e.row.request = r)

\* the requests that got through validation, generate_response raised and
\* the view is done
FellBack ==
    { r \in DOMAIN requests :
        requests[r].pc = "done" /\ requests[r].raised # None }

\* C12: when generate_response raised in a validated request, the rows the
\* request leaves are the user's message and one fallback assistant
\* message, the response holds both, and no exception leaves the view.
C12_FallbackOnFailure ==
    \A r \in FellBack :
        LET q == requests[r]
            rows == RowsOf(r)
        IN
        /\ Len(rows) = 2
        /\ rows[1].row.message_type = "user"
        /\ rows[1].id = q.response.user_message
        /\ rows[2].row.message_type = "assistant"
        /\ rows[2].row.content = "I apologize, but I encountered an error"
        /\ rows[2].id = q.response.assistant_message
        /\ rows[1].row.conversation = rows[2].row.conversation
        /\ q.escaped = None

\* both requests fell back, on the same conversation
C12_Witness ==
    /\ FellBack = DOMAIN requests
    /\ \A r \in FellBack : requests[r].conversation = 1
    /\ \E r, s \in FellBack : requests[r].raised # requests[s].raised

\* the requests that returned on the success path
Succeeded ==
    { r \in DOMAIN requests :
        requests[r].pc = "done" /\ requests[r].response.status = "HTTP_200_OK" }

\* the content of the tool message of a tool result
ToolContent(tool_result) ==
    IF tool_result.result.kind = "data"
    THEN "{\"location\": \"Paris\", \"temperature\": 18}"
    ELSE "{\"error\": \"Location not found\", \"location\": \"Paris\"}"

\* C13: the rows a successful request leaves are, in this order, the user's
\* message, the assistant message with the final response, and one tool
\* message per tool result in result order; while a request runs, none of
\* its tool messages is stored before its assistant message.
C13_TurnPersistedInOrder ==
    /\ \A r \in Succeeded :
          LET q == requests[r]
              rows == RowsOf(r)
              tool_results == q.ai_result.tool_results
          IN
          /\ Len(rows) = 2 + Len(tool_results)
          /\ rows[1].row.message_type = "user"
          /\ rows[2].row.message_type = "assistant"
          /\ rows[2].row.content =
                IF q.ai_result.response = None THEN ""
                ELSE q.ai_result.response
          /\ \A j \in 1..Len(tool_results) :
                /\ rows[2 + j].row.message_type = "tool"
                /\ rows[2 + j].row.content = ToolContent(tool_results[j])
          /\ \A j \in 1..Len(rows) :
                rows[j].row.conversation = q.conversation
    /\ \A r \in DOMAIN requests :
          \A j \in 1..Len(RowsOf(r)) :
              RowsOf(r)[j].row.message_type = "tool" =>
                  \E k \in 1..(j - 1) :
                      RowsOf(r)[k].row.message_type = "assistant"

\* a request succeeded with two different tool results while the other
\* request stored messages of its own in between
C13_Witness ==
    \E r \in Succeeded :
        LET rows == RowsOf(r) IN
        /\ Len(rows) = 4
        /\ rows[3].row.content # rows[4].row.content
        /\ rows[4].id - rows[1].id > 3

\* the conversations some request is at work on
Busy ==
    { requests[r].conversation :
        r \in { s \in DOMAIN requests :
                  requests[s].pc \notin {"create", "done"} } }

\* the conversations some request completed on
Served ==
    { requests[r].conversation :
        r \in { s \in DOMAIN requests :
                  requests[s].pc = "done" /\ requests[s].escaped = None } }

\* C18: once the requests on a conversation have completed, its
\* message_count is the number of Message rows stored for it.
C18_MessageCountIsNumberOfRows ==
    \A c \in Served \ Busy :
        conversations[c].message_count =
            Cardinality({ id \in 1..Len(message_rows) :
                            message_rows[id].conversation = c })

\* the client a row of a viewset's model belongs to
OwnerOf(view, id) ==
    CASE view = "CityViewSet" -> cities[id].client
      [] view = "ConversationViewSet" -> conversations[id].client
      [] view = "UserPreferenceViewSet" -> preferences[id].client
      [] view = "MessageViewSet" ->
            conversations[message_rows[id].conversation].client

\* C16: every object a viewset's queryset returned belongs to the
\* requesting client; with no authenticated client nothing is returned.
C16_QuerysetOnlyOwnObjects ==
    LET q == requests[ListRequest] IN
    (ListRequest \in DOMAIN requests /\ q.pc = "listed") =>
        /\ \A id \in q.queryset : q.user = {OwnerOf(q.view, id)}
        /\ q.user = {} => q.queryset = {}

\* the messages were listed for a client while messages of both clients'
\* conversations were stored, and the client got some and not all
C16_Witness ==
    LET q == requests[ListRequest] IN
    /\ ListRequest \in DOMAIN requests
    /\ q.pc = "listed"
    /\ q.view = "MessageViewSet"
    /\ q.queryset # {}
    /\ \E id \in 1..Len(message_rows) :
          /\ id \notin q.queryset
          /\ q.user # {OwnerOf("MessageViewSet", id)}

\* the flag when the loop meets the message at place j: an assistant message
\* with tool_calls came before, and no tool message since
FlagSetAt(list, j) ==
    \E p \in 1..(j - 1) :
        /\ list[p].role = "assistant"
        /\ HasToolCalls(list[p])
        /\ \A q \in (p + 1)..(j - 1) : list[q].role # "tool"

\* the places of the messages that are kept, going by the flag alone
KeptPlaces(list) ==
    { j \in 1..Len(list) : list[j].role = "tool" => FlagSetAt(list, j) }

\* the messages at the given places, in their order
RECURSIVE AtPlaces(_, _, _)
AtPlaces(list, places, j) ==
    IF j > Len(list) THEN <<>>
    ELSE (IF j \in places THEN <<list[j]>> ELSE <<>>)
             \o AtPlaces(list, places, j + 1)

\* C21: the sanitizing pass keeps a tool message exactly when the flag is set
\* where it is met, whatever its tool_call_id: its output is the input
\* without the tool messages met while the flag is clear.
C21_KeptByFlagAlone ==
    (stack # <<>> /\ Top.pc = "complete") =>
        LET messages == lists[Top.messages] IN
        lists[Top.cleaned_messages] = AtPlaces(messages, KeptPlaces(messages), 1)

\* a tool message whose id the announcement does not declare was kept after
\* it, and a later tool message whose id it declares was dropped
C21_Witness ==
    /\ stack # <<>>
    /\ Top.pc = "complete"
    /\ LET messages == lists[Top.messages] IN
       \E j, k \in 1..Len(messages) :
          /\ j < k
          /\ messages[j].role = "tool"
          /\ messages[j].tool_call_id = OtherId
          /\ j \in KeptPlaces(messages)
          /\ messages[k].role = "tool"
          /\ messages[k].tool_call_id = OldId
          /\ k \notin KeptPlaces(messages)
          /\ \E p \in 1..(j - 1) : /\ HasToolCalls(messages[p])
                                   /\ messages[p].tool_calls[1].id = OldId
          /\ Len(lists[Top.cleaned_messages]) = Len(messages) - 1

\* C27: the sanitizing pass is idempotent: applied to its own output it
\* gives that output back.
C27_SanitizerIdempotent ==
    (stack # <<>> /\ Top.pc = "complete") =>
        Sanitized(lists[Top.cleaned_messages]) = lists[Top.cleaned_messages]

\* the pass dropped a tool message and kept another one
C27_Witness ==
    /\ stack # <<>>
    /\ Top.pc = "complete"
    /\ Len(lists[Top.cleaned_messages]) + 1 < Len(lists[Top.messages])
    /\ \E j \in 1..Len(lists[Top.cleaned_messages]) :
          lists[Top.cleaned_messages][j].role = "tool"

\* the tool names of function_schemas, in order
SchemaNames ==
    [j \in 1..Len(function_schemas) |-> function_schemas[j].function.name]

\* C26: function_schemas names the keys of functions, each once and in the
\* order in which they were first registered, and the schema entry of a
\* name describes the handler that functions holds for it.
C26_RegistryConsistent ==
    /\ { SchemaNames[j] : j \in 1..Len(SchemaNames) } = DOMAIN functions
    /\ \A j, k \in 1..Len(SchemaNames) :
          SchemaNames[j] = SchemaNames[k] => j = k
    /\ SubSeq(SchemaNames, 1, Len(RegistrationOrder)) = RegistrationOrder
    /\ \A j \in 1..Len(function_schemas) :
          function_schemas[j].function.description
              = functions[SchemaNames[j]]

\* the latest n entries of a sequence, all of them when it has fewer
LatestOf(seq, n) ==
    IF Len(seq) <= n THEN seq ELSE SubSeq(seq, Len(seq) - n + 1, Len(seq))

\* C22: the list a request passes to generate_response is the system prompt
\* and the most recent 20 messages of the conversation in ascending order,
\* the user's message saved by the request being the latest entry.
C22_HistoryEndsWithNewUserMessage ==
    \A r \in DOMAIN requests :
        requests[r].pc = "generate" =>
            LET q == requests[r]
                recent == LatestOf(SelectSeq(message_rows,
                                       LAMBDA row :
                                           row.conversation = q.conversation),
                                   20)
            IN
            /\ Len(q.ai_messages) = 1 + Len(recent)
            /\ \A j \in 1..Len(recent) :
                  /\ q.ai_messages[1 + j].role = recent[j].message_type
                  /\ q.ai_messages[1 + j].content = recent[j].content
            /\ recent[Len(recent)] = message_rows[q.user_message]
            /\ q.ai_messages[Len(q.ai_messages)].content = "question"

\* the requests whose generate_response made its first completion call
Submitted ==
    { r \in DOMAIN requests :
        requests[r].pc \in {"assistant", "tool", "count", "save", "fallback",
                            "done"}
        /\ requests[r].escaped = None }

\* C28: the list a request submits in its first completion call holds no
\* tool message: the tool messages rebuilt from the stored history are all
\* discarded, the rebuilt assistant messages carrying no tool_calls.
C28_NoStoredToolMessageSubmitted ==
    \A r \in Submitted :
        LET q == requests[r] IN
        /\ \A j \in 1..Len(q.ai_messages) :
              q.ai_messages[j].tool_calls = <<>>
        /\ \A j \in 1..Len(q.submitted) : q.submitted[j].role # "tool"
        /\ SelectSeq(q.ai_messages, LAMBDA msg : msg.role # "tool")
              = q.submitted

\* a request whose history held tool messages made its first submission
C28_Witness ==
    \E r \in Submitted :
        LET q == requests[r] IN
        /\ \E j \in 1..Len(q.ai_messages) : q.ai_messages[j].role = "tool"
        /\ Len(q.submitted) > 2
        /\ Len(q.submitted) < Len(q.ai_messages)

\* C29: the messages a request stores lie in a conversation of the client
\* the request is authenticated as, and so do the city and the conversation
\* metadata it updates.
C29_OnlyOwnConversations ==
    \A id \in 1..Len(message_rows) :
        LET row == message_rows[id] IN
        (row.request \in DOMAIN requests
            /\ requests[row.request].pc # "list") =>
            conversations[row.conversation].client
                \in requests[row.request].user

\* C25: a call of get_weather or get_weather_alerts that finds an unexpired
\* entry under its key returns the entry's data without fetching, and a call
\* that finds none fetches, returns what it fetched and leaves it in the
\* cache under its own key for ttl seconds.
C25_FetchesOnlyWithoutEntry ==
    \A j \in 1..Len(weather_calls) :
        LET call == weather_calls[j] IN
        /\ call.found => ~call.fetched /\ call.returned # None
        /\ ~call.found =>
            /\ call.fetched
            /\ call.raised = None
            /\ call.returned \in UpstreamData
            /\ call.key \in DOMAIN cache
            /\ cache[call.key].expires = call.time + DefaultTtl

\* no failure of the weather service has left a handler as an exception
HandlersNeverRaise == handler_call.pc # "raised"

\* C24: a registered handler called with well-formed arguments never lets
\* a failure of the weather service out: it returns an error payload, and
\* the tool message of every error payload of the round is in the list
\* submitted to the completion backend in the next round.
C24_FailuresDeliveredAsToolMessages ==
    /\ HandlersNeverRaise
    /\ handler_call.pc = "submitted" =>
        \A j \in 1..Len(handler_call.result.tool_results) :
            LET tool_result == handler_call.result.tool_results[j] IN
            tool_result.result.kind = "error" =>
                \E k \in 1..Len(handler_call.submitted) :
                    handler_call.submitted[k] = ToolMessage(tool_result)

\* what the model holds about the invocation of a thread
ContextOf(thread) ==
    IF suspended[1].thread = thread
    THEN suspended[1]
    ELSE Context(thread, stack)

\* the assistant message lines 310-314 build from a response
AnnouncementOf(response) ==
    AssistantMessage(
        [response |-> response.content,
         tool_calls |-> [j \in 1..Len(response.tool_calls) |->
                            CallEntry(response.tool_calls[j])]])

\* the messages of an invocation's own: those of its input, the assistant
\* messages of its own responses, the tool messages of its own results
OwnMessages(thread) ==
    LET own == ContextOf(thread)
        h == ConcurrentHistories[thread]
    IN  ({ h[j] : j \in 1..Len(h) }
            \cup { AnnouncementOf(own.responses[k]) :
                     k \in 1..Len(own.responses) })
            \cup { ToolMessage(own.produced[k]) : k \in 1..Len(own.produced) }

\* C23: with two invocations of generate_response interleaved on the one
\* instance, every message of every list an invocation submits is a message
\* of its own input, an assistant message of one of its own responses or the
\* tool message of one of its own results, and the registry stays as it was
\* constructed.
C23_InvocationsDoNotInterfere ==
    /\ Constructed
    /\ \A thread \in Threads :
        LET own == ContextOf(thread) IN
        \A k \in 1..Len(own.sent) :
            \A j \in 1..Len(own.sent[k]) :
                own.sent[k][j] \in OwnMessages(thread)

\* both invocations are in their second round, each after a tool call, and
\* the second one started before the first one's second round
C23_Witness ==
    /\ \A thread \in Threads :
        LET own == ContextOf(thread) IN
        /\ Len(own.sent) = 2
        /\ Len(own.stack) = 2
        /\ own.produced # <<>>
    /\ ContextOf(1).stack[1].cleaned_messages = 3
    /\ ContextOf(2).stack[1].cleaned_messages = 4

====
